---- MODULE Spec2Model ----
(***************************************************************************)
(* Wallpaper Engine <-> Home Assistant MQTT bridge.                        *)
(*                                                                         *)
(* The repository holds three variants of the same program:                *)
(*   "main"  src/src/main.ts                                               *)
(*   "p0"    src/unnamed/part_000  (current-wallpaper sensor)              *)
(*   "p1"    src/unnamed/part_001  (explicit pause payload, monitor        *)
(*                                  selectors, startup defaults)           *)
(* The variable `variant` is fixed by Init and selects the code modelled.  *)
(*                                                                         *)
(* JavaScript strings are tuples of one-character strings, so that         *)
(* toLowerCase, split, parseInt, template rendering and JSON.parse /       *)
(* JSON.stringify are computed character by character.  A network         *)
(* address is a tuple of its octets and its dots ("192", ".", "168", ...), *)
(* a topic the tuple of its segments and slashes.                          *)
(*                                                                         *)
(* Every handler is an async function: it runs synchronously up to its     *)
(* next `await`, and resumes when the awaited promise settles.  A task     *)
(* slot holds one running handler; each action is one such run-to-await    *)
(* stretch.                                                                *)
(***************************************************************************)
EXTENDS Integers, Sequences, FiniteSets, TLC

VARIABLES variant, ifaces, localIp, nodeId, state, wallpapers, profiles, tasks,
          subs, timers, connects, retained, registry, transport, exited

vars == <<variant, ifaces, localIp, nodeId, state, wallpapers, profiles, tasks,
          subs, timers, connects, retained, registry, transport, exited>>

----------------------------------------------------------------------------
(* Bounds of the model *)

\* Number of handlers (message, connect, timer) that may be in flight at once.
MaxTasks == 2

\* Number of broker connect events (the first connect and reconnects).
MaxConnects == 2

----------------------------------------------------------------------------
(* Strings *)

UpperChars == <<"A","B","C","D","E","F","G","H","I","J","K","L","M",
                "N","O","P","Q","R","S","T","U","V","W","X","Y","Z">>

LowerChars == <<"a","b","c","d","e","f","g","h","i","j","k","l","m",
                "n","o","p","q","r","s","t","u","v","w","x","y","z">>

DigitChars == <<"0","1","2","3","4","5","6","7","8","9">>

WhiteChars == {" "}

IndexIn(c, seq) ==
  IF \E i \in 1..Len(seq) : seq[i] = c
  THEN CHOOSE i \in 1..Len(seq) : seq[i] = c
  ELSE 0

LowerChar(c) ==
  IF IndexIn(c, UpperChars) > 0 THEN LowerChars[IndexIn(c, UpperChars)] ELSE c

\* String.prototype.toLowerCase
ToLowerCase(s) == [i \in 1..Len(s) |-> LowerChar(s[i])]

IsDigit(c) == IndexIn(c, DigitChars) > 0

DigitVal(c) == IndexIn(c, DigitChars) - 1

RECURSIVE Digits(_)
\* Number -> decimal text, for a natural number
Digits(n) ==
  IF n < 10 THEN <<DigitChars[n + 1]>>
  ELSE Digits(n \div 10) \o <<DigitChars[(n % 10) + 1]>>

RECURSIVE Split(_, _)
\* String.prototype.split with a one-character separator
Split(s, sep) ==
  IF \E i \in 1..Len(s) : s[i] = sep
  THEN LET i == CHOOSE j \in 1..Len(s) :
                  s[j] = sep /\ \A k \in 1..(j - 1) : s[k] # sep
       IN  <<SubSeq(s, 1, i - 1)>> \o Split(SubSeq(s, i + 1, Len(s)), sep)
  ELSE <<s>>

\* A value that may be undefined
Undefined == [def |-> FALSE, s |-> <<>>]
Defined(s) == [def |-> TRUE, s |-> s]

\* Array destructuring  const [a, b] = parts
Nth(parts, i) == IF i <= Len(parts) THEN Defined(parts[i]) ELSE Undefined

NaN == [t |-> "nan", n |-> 0]
Int32(n) == [t |-> "int", n |-> n]

RECURSIVE DigitRun(_, _)
\* end of the run of digits of s that starts at i (i - 1 when there is none)
DigitRun(s, i) ==
  IF i <= Len(s) /\ IsDigit(s[i]) THEN DigitRun(s, i + 1) ELSE i - 1

RECURSIVE NumberOf(_)
NumberOf(ds) ==
  IF Len(ds) = 0 THEN 0
  ELSE 10 * NumberOf(SubSeq(ds, 1, Len(ds) - 1)) + DigitVal(ds[Len(ds)])

RECURSIVE SkipWs(_, _)
SkipWs(s, i) ==
  IF i <= Len(s) /\ s[i] \in WhiteChars THEN SkipWs(s, i + 1) ELSE i

\* parseInt(x): x is converted to a string ("undefined" for undefined), leading
\* white space is skipped, an optional sign is read, then the longest run of
\* decimal digits; NaN when there is no digit.
ParseInt(x) ==
  LET s    == IF x.def THEN x.s ELSE <<"u","n","d","e","f","i","n","e","d">>
      i    == SkipWs(s, 1)
      neg  == i <= Len(s) /\ s[i] = "-"
      j    == IF i <= Len(s) /\ s[i] \in {"-", "+"} THEN i + 1 ELSE i
      e    == DigitRun(s, j)
  IN  IF e < j THEN NaN
      ELSE Int32(IF neg THEN 0 - NumberOf(SubSeq(s, j, e)) ELSE NumberOf(SubSeq(s, j, e)))

----------------------------------------------------------------------------
(* JSON: numbers (naturals), true/false/null, strings without escapes,     *)
(* objects.  A value is a record [t, n, m]: m is the member list of an     *)
(* object, each member [k |-> key, v |-> value].                           *)

JNum(n)  == [t |-> "num",  n |-> n, m |-> <<>>]
JLit(w)  == [t |-> w,      n |-> 0, m |-> <<>>]
JStr(s)  == [t |-> "str",  n |-> 0, m |-> s]
JObj(ms) == [t |-> "obj",  n |-> 0, m |-> ms]

ParseFail == [ok |-> FALSE, val |-> JLit("null"), next |-> 0]
Parsed(v, next) == [ok |-> TRUE, val |-> v, next |-> next]

StartsAt(s, i, w) ==
  /\ i + Len(w) - 1 <= Len(s)
  /\ SubSeq(s, i, i + Len(w) - 1) = w

RECURSIVE StringEnd(_, _)
\* index of the closing quote of a string whose first character is at i, 0 if none
StringEnd(s, i) ==
  IF i > Len(s) THEN 0
  ELSE IF s[i] = "\"" THEN i
  ELSE StringEnd(s, i + 1)

RECURSIVE ParseValue(_, _)
RECURSIVE ParseMembers(_, _, _)

\* members of an object, the first at i (after white space); acc are those read
ParseMembers(s, i, acc) ==
  IF ~(i <= Len(s) /\ s[i] = "\"") THEN ParseFail
  ELSE LET q == StringEnd(s, i + 1)
       IN  IF q = 0 THEN ParseFail
           ELSE LET key == SubSeq(s, i + 1, q - 1)
                    c   == SkipWs(s, q + 1)
                IN  IF ~(c <= Len(s) /\ s[c] = ":") THEN ParseFail
                    ELSE LET r == ParseValue(s, SkipWs(s, c + 1))
                         IN  IF ~r.ok THEN ParseFail
                             ELSE LET d   == SkipWs(s, r.next)
                                      all == Append(acc, [k |-> key, v |-> r.val])
                                  IN  IF d <= Len(s) /\ s[d] = "}"
                                        THEN Parsed(JObj(all), d + 1)
                                      ELSE IF d <= Len(s) /\ s[d] = ","
                                        THEN ParseMembers(s, SkipWs(s, d + 1), all)
                                      ELSE ParseFail

ParseValue(s, i) ==
  IF i > Len(s) THEN ParseFail
  ELSE IF s[i] = "{" THEN
         LET j == SkipWs(s, i + 1)
         IN  IF j <= Len(s) /\ s[j] = "}" THEN Parsed(JObj(<<>>), j + 1)
             ELSE ParseMembers(s, j, <<>>)
  ELSE IF s[i] = "\"" THEN
         LET q == StringEnd(s, i + 1)
         IN  IF q = 0 THEN ParseFail ELSE Parsed(JStr(SubSeq(s, i + 1, q - 1)), q + 1)
  ELSE IF StartsAt(s, i, <<"t","r","u","e">>) THEN Parsed(JLit("true"), i + 4)
  ELSE IF StartsAt(s, i, <<"f","a","l","s","e">>) THEN Parsed(JLit("false"), i + 5)
  ELSE IF StartsAt(s, i, <<"n","u","l","l">>) THEN Parsed(JLit("null"), i + 4)
  ELSE IF IsDigit(s[i]) THEN
         \* no leading zeros: "0" is a number, "03" is not
         LET e == IF s[i] = "0" THEN i ELSE DigitRun(s, i)
         IN  Parsed(JNum(NumberOf(SubSeq(s, i, e))), e + 1)
  ELSE ParseFail

\* JSON.parse: [ok |-> FALSE] stands for the SyntaxError it throws
JSONParse(s) ==
  LET r == ParseValue(s, SkipWs(s, 1))
  IN  IF r.ok /\ SkipWs(s, r.next) = Len(s) + 1
      THEN [ok |-> TRUE, val |-> r.val]
      ELSE [ok |-> FALSE, val |-> JLit("null")]

RECURSIVE JSONStringify(_)
RECURSIVE StringifyMembers(_)

StringifyMembers(ms) ==
  IF Len(ms) = 0 THEN <<>>
  ELSE <<"\"">> \o ms[1].k \o <<"\"", ":">> \o JSONStringify(ms[1].v)
       \o (IF Len(ms) > 1 THEN <<",">> ELSE <<>>)
       \o StringifyMembers(Tail(ms))

\* JSON.stringify of a parsed value: no white space
JSONStringify(v) ==
  IF v.t = "num" THEN Digits(v.n)
  ELSE IF v.t = "str" THEN <<"\"">> \o v.m \o <<"\"">>
  ELSE IF v.t = "obj" THEN <<"{">> \o StringifyMembers(v.m) \o <<"}">>
  ELSE IF v.t = "true" THEN <<"t","r","u","e">>
  ELSE IF v.t = "false" THEN <<"f","a","l","s","e">>
  ELSE <<"n","u","l","l">>

----------------------------------------------------------------------------
(* Text constants *)

sON      == <<"O","N">>
sOFF     == <<"O","F","F">>
sOne     == <<"1">>
sZero    == <<"0">>
sTrue    == <<"t","r","u","e">>
sUPPER   == <<"T","R","U","E">>
sMixed   == <<"t","R","u","E">>
sOnLower == <<"o","n">>
sEmpty   == <<>>
sAll     == <<"a","l","l">>
sPressed == <<"p","r","e","s","s","e","d">>
sOnline  == <<"o","n","l","i","n","e">>
sOffline == <<"o","f","f","l","i","n","e">>

Variants == {"main", "p0", "p1"}

----------------------------------------------------------------------------
(* The network address and the node identifier *)

Dot == "."

\* an entry of os.networkInterfaces()[name]
Addr(family, internal, address) ==
  [family |-> family, internal |-> internal, address |-> address]

Loopback == <<"127", Dot, "0", Dot, "0", Dot, "1">>
HomeIp   == <<"192", Dot, "168", Dot, "178", Dot, "20">>
OtherIp  == <<"10", Dot, "0", Dot, "0", Dot, "5">>

\* the default value of preferPrefix, '192.168.178'
PreferPrefix == <<"192", Dot, "168", Dot, "178">>

LoIface  == <<Addr("IPv4", TRUE, Loopback)>>
\* Network configurations: the interfaces in the order of Object.keys, each
\* with its addresses.
HomeIfaces == <<LoIface, <<Addr("IPv4", FALSE, HomeIp)>>>>
VpnIfaces  == <<LoIface, <<Addr("IPv6", FALSE, <<"fe80", "::", "1">>), Addr("IPv4", FALSE, OtherIp)>>,
                <<Addr("IPv4", FALSE, HomeIp)>>>>
AwayIfaces == <<LoIface, <<Addr("IPv4", FALSE, OtherIp)>>>>
NoIfaces   == <<LoIface>>

IfaceConfigs == {HomeIfaces, VpnIfaces, AwayIfaces, NoIfaces}
OneNetwork   == {HomeIfaces}

\* String.prototype.startsWith
StartsWith(s, prefix) ==
  Len(prefix) <= Len(s) /\ SubSeq(s, 1, Len(prefix)) = prefix

RECURSIVE AllAddrs(_)
\* the addresses in the order the two nested loops visit them
AllAddrs(ifs) == IF Len(ifs) = 0 THEN <<>> ELSE Head(ifs) \o AllAddrs(Tail(ifs))

External(a) == a.family = "IPv4" /\ ~a.internal

\* getLocalIPv4: the first external IPv4 address with the preferred prefix,
\* else the first external IPv4 address, else 127.0.0.1
getLocalIPv4(ifs) ==
  LET as        == AllAddrs(ifs)
      Preferred == SelectSeq(as, LAMBDA a : External(a) /\ StartsWith(a.address, PreferPrefix))
      Others    == SelectSeq(as, External)
  IN  IF Len(Preferred) > 0 THEN Preferred[1].address
      ELSE IF Len(Others) > 0 THEN Others[1].address
      ELSE Loopback

RECURSIVE ReplaceFirst(_, _, _)
\* String.prototype.replace with a string pattern: the first occurrence only
ReplaceFirst(s, from, to) ==
  IF Len(s) = 0 THEN <<>>
  ELSE IF Head(s) = from THEN <<to>> \o Tail(s)
  ELSE <<Head(s)>> \o ReplaceFirst(Tail(s), from, to)

\* String.prototype.replace with a /g pattern: every occurrence
ReplaceAll(s, from, to) == [i \in 1..Len(s) |-> IF s[i] = from THEN to ELSE s[i]]

\* the node identifier computed with replace('.', '_')
NodeIdFirstDot(ip) == <<"wallpaper_engine_">> \o ReplaceFirst(ip, Dot, "_")

\* `wallpaper_engine_${localIp.replace(/\./g, '_')}`
NodeIdOf(ip) == <<"wallpaper_engine_">> \o ReplaceAll(ip, Dot, "_")

----------------------------------------------------------------------------
(* Topics *)

RECURSIVE Join(_, _)
\* Array.prototype.join over the segments of a topic
Join(parts, sep) ==
  IF Len(parts) = 0 THEN <<>>
  ELSE IF Len(parts) = 1 THEN parts[1]
  ELSE parts[1] \o <<sep>> \o Join(Tail(parts), sep)

makeTopic(parts) == Join(parts, "/")

haDiscoveryTopic(domain, node, objectId) ==
  <<"homeassistant", "/", domain, "/">> \o node \o <<"/", objectId, "/", "config">>

haDevice(ip) == [identifiers |-> <<<<"wallpaper-engine-">> \o ip>>]

StatusTopic == <<"homeassistant", "/", "status", "/">> \o nodeId

CmdTopic(c)   == makeTopic(<< <<"we">>, nodeId, <<c>>, <<"set">> >>)
StateTopic(c) == makeTopic(<< <<"we">>, nodeId, <<c>>, <<"state">> >>)
LastSetTopic  == makeTopic(<< <<"we">>, nodeId, <<"properties">>, <<"last_set">> >>)

ToggleNames  == {"show_icons", "muted", "paused"}
ButtonNames  == {"button_play", "button_stop"}
CommandNames == <<"show_icons", "muted", "paused", "button_play", "button_stop",
                  "select_wallpaper", "select_profile", "properties", "refresh">>

Range(f) == {f[i] : i \in DOMAIN f}

\* subscribeCommandTopics: the topics the client subscribes to
subscribeCommandTopics(v) ==
  {CmdTopic(c) : c \in Range(CommandNames)}
    \cup (IF v = "p0" THEN {StateTopic("show_icons")} ELSE {})

----------------------------------------------------------------------------
(* Logged events of a handler: control-API calls, publishes, subscribes,  *)
(* the settling of an awaited call, the arming of the timer.               *)

NoPayload  == [k |-> "none", v |-> <<>>]
Text(s)    == [k |-> "text", v |-> s]
Json(x)    == [k |-> "json", v |-> x]

Call(api, args)       == [e |-> "call", name |-> api, args |-> args,
                          payload |-> NoPayload, retain |-> FALSE]
Pub(topic, p, retain) == [e |-> "pub", name |-> topic, args |-> <<>>,
                          payload |-> p, retain |-> retain]
Sub(topic)            == [e |-> "sub", name |-> topic, args |-> <<>>,
                          payload |-> NoPayload, retain |-> FALSE]
Settled(ok)           == [e |-> IF ok THEN "ok" ELSE "err", name |-> <<>>, args |-> <<>>,
                          payload |-> NoPayload, retain |-> FALSE]
Armed                 == [e |-> "arm", name |-> <<"setInterval">>, args |-> <<>>,
                          payload |-> NoPayload, retain |-> FALSE]
Exit(code)            == [e |-> "exit", name |-> <<"process", "exit">>, args |-> <<>>,
                          payload |-> [k |-> "code", v |-> Digits(code)], retain |-> FALSE]

publishJson(topic, payload, retain) == Pub(topic, Json(payload), retain)

\* The control API's methods
apiShowIcons  == <<"desktop", "showIcons">>
apiHideIcons  == <<"desktop", "hideIcons">>
apiMute       == <<"controls", "mute">>
apiUnmute     == <<"controls", "unmute">>
apiPause      == <<"controls", "pause">>
apiPlay       == <<"controls", "play">>
apiStop       == <<"controls", "stop">>
apiLoad       == <<"wallpaper", "load">>
apiCurrent    == <<"wallpaper", "current">>
apiApply      == <<"wallpaper", "applyProperties">>
apiProfile    == <<"profile", "load">>
apiListW      == <<"listWallpapers">>
apiListP      == <<"listProfiles">>
clientEnd     == <<"client", "end">>

----------------------------------------------------------------------------
(* What the control API may answer, and what the broker may deliver *)

\* Entries of listWallpapers(): id may be missing, path is the fallback
ApiW1 == [id |-> Defined(<<"x">>), path |-> <<"p">>, title |-> <<"S">>]
ApiW2 == [id |-> Undefined,        path |-> <<"q">>, title |-> <<"a","|","b">>]

ApiCatalogs == {<<ApiW1>>, <<ApiW1, ApiW2>>}

\* listProfiles() answers a list or nothing
ApiProfiles == {[def |-> FALSE, l |-> <<>>], [def |-> TRUE, l |-> <<<<"W">>>>]}

\* wallpaper().current(): properties may be missing
ApiCurrents ==
  {[id |-> <<"x">>, title |-> <<"S">>,
    properties |-> [def |-> TRUE, v |-> JObj(<<[k |-> <<"f">>, v |-> JNum(60)]>>)]],
   [id |-> <<"q">>, title |-> <<"a","|","b">>,
    properties |-> [def |-> FALSE, v |-> JLit("null")]]}

TogglePayloads == {sON, sOne, sTrue, sMixed, sUPPER, sOFF, sZero, sOnLower, sEmpty}

ButtonPayloads == {sEmpty, sON}

WallpaperPayloads ==
  {<<"S"," ","(","x",")","|","a","l","l">>,
   <<"S"," ","(","x",")","|","1">>,
   <<"a","|","b"," ","(","q",")","|","a","l","l">>,
   <<"Z"," ","(","z",")","|","a","l","l">>,
   <<"x">>}

ProfilePayloads == {<<"W">>}

PropertyPayloads ==
  {<<"{","\"","f","\"",":","3","0","}">>,
   <<"{"," ","\"","f","\"",":","3","0","}">>,
   <<"{","\"","f","\"",":","3","0">>,
   sON}

PayloadsFor(topic) ==
  IF topic \in {CmdTopic(c) : c \in ToggleNames} THEN TogglePayloads
  ELSE IF topic \in {CmdTopic(c) : c \in ButtonNames} THEN ButtonPayloads
  ELSE IF topic = CmdTopic("select_wallpaper") THEN WallpaperPayloads
  ELSE IF topic = CmdTopic("select_profile") THEN ProfilePayloads
  ELSE IF topic = CmdTopic("properties") THEN PropertyPayloads
  ELSE IF topic = CmdTopic("refresh") THEN {sEmpty}
  ELSE {sON}

----------------------------------------------------------------------------
(* State *)

Slots == 1..MaxTasks

NoMatch == [found |-> FALSE, id |-> <<>>]

\* A task: the handler's kind, the message it handles, where it awaits (pc),
\* its locals (on, match, mons, props), the catalog as it was when a
\* select_wallpaper message arrived (cat), what it has done so far (ev), the
\* slots of the handlers of earlier commands on the same topic that still
\* run (older),
\* and, for a toggle command, the payload values of the later commands on
\* the same topic whose handlers published before it did (overtaken).
Idle == [kind |-> "idle", topic |-> <<>>, msg |-> <<>>, pc |-> "idle", on |-> FALSE,
         match |-> NoMatch, mons |-> <<>>, props |-> JLit("null"), cat |-> <<>>,
         ev |-> <<>>, older |-> {}, overtaken |-> {}]

\* let state = { showIcons: true, muted: false, paused: false }
InitialState == [showIcons |-> TRUE, muted |-> FALSE, paused |-> FALSE]

WallpapersListTopic == makeTopic(<< <<"we">>, nodeId, <<"wallpapers">>, <<"list">> >>)

\* the discovery topic of the select_wallpaper entity
SelectConfigTopic == haDiscoveryTopic("select", nodeId, "select_wallpaper")

\* Retained topics whose last value the model keeps
TrackedTopics == {StateTopic(c) : c \in ToggleNames}

\* the retained topics of the wallpaper selection: the selected option, the
\* published catalog and the registration that carries the option list
SelectTopics == {StateTopic("select_wallpaper"), WallpapersListTopic, SelectConfigTopic}

RECURSIVE ApplyPubs(_, _)
\* the broker keeps the last retained message of a topic
ApplyPubs(ret, evs) ==
  IF Len(evs) = 0 THEN ret
  ELSE LET e == Head(evs)
       IN  ApplyPubs(IF e.e = "pub" /\ e.retain /\ e.name \in DOMAIN ret
                       THEN [ret EXCEPT ![e.name] = e.payload]
                       ELSE ret,
                     Tail(evs))

\* a publish on a discovery topic homeassistant/<domain>/<node>/<object>/config
IsRegistration(e) == e.e = "pub" /\ e.name[Len(e.name)] = "config"

RECURSIVE FirstRegistrations(_, _)
\* the broker's view of discovery: per config topic, the unique_id and the
\* device identifiers of the first registration published on it
FirstRegistrations(reg, evs) ==
  IF Len(evs) = 0 THEN reg
  ELSE LET e == Head(evs)
       IN  FirstRegistrations(
             IF IsRegistration(e) /\ (\A r \in reg : r.topic # e.name)
               THEN reg \cup {[topic |-> e.name, unique_id |-> e.payload.v.unique_id,
                               identifiers |-> e.payload.v.device.identifiers]}
               ELSE reg,
             Tail(evs))

\* main() up to the registration of its handlers, on a machine whose network
\* configuration is one of configs; the model keeps the retained value of
\* the topics in watched
StartWatching(configs, watched) ==
  /\ variant \in Variants
  /\ ifaces \in configs
  /\ localIp = getLocalIPv4(ifaces)
  /\ nodeId = NodeIdOf(localIp)
  /\ state = InitialState
  /\ wallpapers = <<>>
  /\ profiles = <<>>
  /\ tasks = [t \in Slots |-> Idle]
  /\ subs = {}
  /\ timers = 0
  /\ connects = 0
  /\ retained = [tp \in watched |-> NoPayload]
  /\ registry = {}
  /\ transport = "open"
  /\ exited = <<>>

Start(configs) == StartWatching(configs, TrackedTopics)

Init == Start(IfaceConfigs)

\* the same on the home network
InitHome == Start(OneNetwork)

\* the same, keeping the retained values of the wallpaper selection
InitSelect == StartWatching(OneNetwork, SelectTopics)

\* process.exit has not been called
Running == exited = <<>>

\* A finished handler is forgotten before anything else happens.
NoneDone == Running /\ \A t \in Slots : tasks[t].pc # "done"

\* the slots of the handlers in flight
Busy == {t \in Slots : tasks[t].kind # "idle"}

\* a handler starts: the handlers in flight for the same command topic are
\* older than it
Begin(task) ==
  [task EXCEPT !.older = {u \in Busy : /\ task.kind = "msg"
                                       /\ tasks[u].kind = "msg"
                                       /\ tasks[u].topic = task.topic}]

HasFree == NoneDone /\ \E t \in Slots : tasks[t].kind = "idle"
FreeSlot == CHOOSE t \in Slots : tasks[t].kind = "idle" /\ \A u \in Slots : u < t => tasks[u].kind # "idle"

\* the handler goes on: events evs happen and it stops at pc
Go(task, pc, evs) == [task EXCEPT !.pc = pc, !.ev = @ \o evs]

----------------------------------------------------------------------------
(* The command dispatcher: client.on('message') *)

\* the payload test without toLowerCase
IsOnExact(msg) == msg = sON \/ msg = sOne \/ msg = sTrue

\* ['ON','1'].includes(msg) || msg.toLowerCase() === 'true'
IsOn(msg) == msg = sON \/ msg = sOne \/ ToLowerCase(msg) = sTrue

\* state.x ? 'ON' : 'OFF'
OnOff(b) == IF b THEN sON ELSE sOFF

\* the control call of a toggle command
ToggleCall(v, c, on) ==
  IF c = "show_icons" THEN (IF on THEN apiShowIcons ELSE apiHideIcons)
  ELSE IF c = "muted" THEN (IF on THEN apiMute ELSE apiUnmute)
  ELSE IF v = "p1" THEN (IF on THEN apiPause ELSE apiPlay)
  ELSE apiPause

\* the assignment to the shadow state that follows the control call
ToggleAssign(v, c, st, on) ==
  IF c = "show_icons" THEN [st EXCEPT !.showIcons = on]
  ELSE IF c = "muted" THEN [st EXCEPT !.muted = on]
  ELSE IF v = "p1" THEN [st EXCEPT !.muted = on]
  ELSE [st EXCEPT !.paused = ~st.paused]

\* the shadow boolean a toggle's state topic shows
ToggleField(c, st) ==
  IF c = "show_icons" THEN st.showIcons
  ELSE IF c = "muted" THEN st.muted
  ELSE st.paused

TogglePublish(c, st) == Pub(StateTopic(c), Text(OnOff(ToggleField(c, st))), TRUE)

ButtonCall(c) == IF c = "button_play" THEN apiPlay ELSE apiStop

\* the acknowledgment published like a state: retained
ButtonPublishRetained(c) == Pub(StateTopic(c), Text(sPressed), TRUE)

ButtonPublish(c) == Pub(StateTopic(c), Text(sPressed), FALSE)

\* `${w.title} (${w.id})`
Render(w) == w.title \o <<" ", "(">> \o w.id \o <<")">>

\* wallpapers.find(w => `${w.title} (${w.id})` === idWithTitle)
FindWallpaper(wps, idWithTitle) ==
  IF \E i \in 1..Len(wps) : Render(wps[i]) = idWithTitle
  THEN LET i == CHOOSE j \in 1..Len(wps) :
                  /\ Render(wps[j]) = idWithTitle
                  /\ \A k \in 1..(j - 1) : Render(wps[k]) # idWithTitle
       IN  [found |-> TRUE, id |-> wps[i].id]
  ELSE NoMatch

MonUndefined == [t |-> "undef", n |-> 0]

\* monitorStr === 'all' ? undefined : parseInt(monitorStr)
MonitorIndex(monitorStr) ==
  IF monitorStr = Defined(sAll) THEN MonUndefined ELSE ParseInt(monitorStr)

SelectPublish(msg) == Pub(StateTopic("select_wallpaper"), Text(msg), TRUE)

\* case select_wallpaper of part_001, up to its first await
SelectStartP1(base, msg, wps) ==
  LET parts == Split(msg, "|")
      idWithTitle == parts[1]
      monitorIndex == MonitorIndex(Nth(parts, 2))
      match == FindWallpaper(wps, idWithTitle)
      b == [base EXCEPT !.match = match]
  IN  IF monitorIndex = MonUndefined
      THEN IF match.found
           THEN Go([b EXCEPT !.mons = <<Int32(1), Int32(2)>>], "load",
                   <<Call(apiLoad, <<match.id, Int32(0)>>)>>)
           ELSE Go(b, "done", <<SelectPublish(msg)>>)
      ELSE IF match.found
           THEN Go(b, "load", <<Call(apiLoad, <<match.id, monitorIndex>>)>>)
           ELSE Go(b, "done", <<SelectPublish(msg)>>)

\* case properties with the parse outside the try block: a payload that does
\* not parse leaves props = {} and is applied all the same
PropertiesStartLenient(base, msg) ==
  LET r == JSONParse(msg)
  IN  IF r.ok
      THEN Go([base EXCEPT !.props = r.val], "apply", <<Call(apiApply, <<r.val>>)>>)
      ELSE Go([base EXCEPT !.props = JObj(<<>>)], "apply", <<Call(apiApply, <<JObj(<<>>)>>)>>)

\* case properties, up to its first await
PropertiesStart(base, msg) ==
  LET r == JSONParse(msg)
  IN  IF r.ok
      THEN Go([base EXCEPT !.props = r.val], "apply", <<Call(apiApply, <<r.val>>)>>)
      ELSE Go(base, "done", <<>>)

\* a dispatcher that answers a message on show_icons/state by publishing the
\* state again
StartMessageEcho(v, topic, msg, wps) ==
  LET base == [Idle EXCEPT !.kind = "msg", !.topic = topic, !.msg = msg]
  IN  IF topic = StateTopic("show_icons")
      THEN Go(base, "done", <<Pub(StateTopic("show_icons"), Text(msg), TRUE)>>)
      ELSE Go(base, "done", <<>>)

\* the handler of one inbound message, up to its first await
StartMessage(v, topic, msg, wps) ==
  LET base == [Idle EXCEPT !.kind = "msg", !.topic = topic, !.msg = msg]
  IN  IF \E c \in ToggleNames : topic = CmdTopic(c)
      THEN LET c == CHOOSE c \in ToggleNames : topic = CmdTopic(c)
           IN  Go([base EXCEPT !.on = IsOn(msg)], "toggle",
                  <<Call(ToggleCall(v, c, IsOn(msg)), <<>>)>>)
      ELSE IF \E c \in ButtonNames : topic = CmdTopic(c)
      THEN LET c == CHOOSE c \in ButtonNames : topic = CmdTopic(c)
           IN  Go(base, "button", <<Call(ButtonCall(c), <<>>)>>)
      ELSE IF topic = CmdTopic("select_wallpaper")
      THEN IF v = "p1" THEN SelectStartP1([base EXCEPT !.cat = wps], msg, wps)
           ELSE Go([base EXCEPT !.cat = wps], "load", <<Call(apiLoad, <<msg>>)>>)
      ELSE IF topic = CmdTopic("select_profile")
      THEN Go(base, "profile", <<Call(apiProfile, <<msg>>)>>)
      ELSE IF topic = CmdTopic("properties")
      THEN PropertiesStart(base, msg)
      ELSE IF topic = CmdTopic("refresh")
      THEN Go(base, "listW", <<Call(apiListW, <<>>)>>)
      ELSE Go(base, "done", <<>>)

\* the toggle command a task handles
ToggleOf(task) == CHOOSE c \in ToggleNames : task.topic = CmdTopic(c)
ButtonOf(task) == CHOOSE c \in ButtonNames : task.topic = CmdTopic(c)

\* a toggle command that publishes the shadow boolean as it was before the call
ToggleResumeStale(v, task, st, ok) ==
  IF ok
  THEN [task  |-> Go(task, "done", <<Settled(TRUE), TogglePublish(ToggleOf(task), st)>>),
        state |-> ToggleAssign(v, ToggleOf(task), st, task.on)]
  ELSE [task |-> Go(task, "done", <<Settled(FALSE)>>), state |-> st]

\* a toggle command that assigns the shadow boolean whether or not the
\* control call succeeded
ToggleResumeOptimistic(v, task, st, ok) ==
  LET st2 == ToggleAssign(v, ToggleOf(task), st, task.on)
  IN  IF ok
      THEN [task  |-> Go(task, "done", <<Settled(TRUE), TogglePublish(ToggleOf(task), st2)>>),
            state |-> st2]
      ELSE [task |-> Go(task, "done", <<Settled(FALSE)>>), state |-> st2]

\* a toggle command after its control call settled
ToggleResume(v, task, st, ok) ==
  IF ok
  THEN LET st2 == ToggleAssign(v, ToggleOf(task), st, task.on)
       IN  [task  |-> Go(task, "done", <<Settled(TRUE), TogglePublish(ToggleOf(task), st2)>>),
            state |-> st2]
  ELSE [task |-> Go(task, "done", <<Settled(FALSE)>>), state |-> st]

\* a button command after its control call settled
ButtonResume(task, ok) ==
  IF ok THEN Go(task, "done", <<Settled(TRUE), ButtonPublish(ButtonOf(task))>>)
  ELSE Go(task, "done", <<Settled(FALSE)>>)

\* select_wallpaper after a load call settled
LoadResume(v, task, ok) ==
  IF v = "p1"
  THEN \* each load has its own try/catch; the publish follows in any case
       IF Len(task.mons) > 0
       THEN Go([task EXCEPT !.mons = Tail(@)], "load",
               <<Settled(ok), Call(apiLoad, <<task.match.id, Head(task.mons)>>)>>)
       ELSE Go(task, "done", <<Settled(ok), SelectPublish(task.msg)>>)
  ELSE IF ~ok THEN Go(task, "done", <<Settled(FALSE)>>)
  ELSE IF v = "main" THEN Go(task, "done", <<Settled(TRUE), SelectPublish(task.msg)>>)
  ELSE Go(task, "current", <<Settled(TRUE), Call(apiCurrent, <<>>)>>)

\* select_profile after the profile-load call settled
ProfileResume(v, task, ok) ==
  IF ok /\ v = "p1"
  THEN Go(task, "done", <<Settled(TRUE), Pub(StateTopic("select_profile"), Text(task.msg), TRUE)>>)
  ELSE Go(task, "done", <<Settled(ok)>>)

\* properties after applyProperties settled
ApplyResume(v, task, ok) ==
  IF ~ok THEN Go(task, "done", <<Settled(FALSE)>>)
  ELSE IF v = "p0" THEN Go(task, "current", <<Settled(TRUE), Call(apiCurrent, <<>>)>>)
  ELSE Go(task, "done", <<Settled(TRUE), Pub(LastSetTopic, Text(JSONStringify(task.props)), TRUE)>>)

\* cw.properties || {}
PropertiesOrEmpty(cw) == IF cw.properties.def THEN cw.properties.v ELSE JObj(<<>>)

\* publishCurrentWallpaper after wallpaper().current() answered
CurrentPublishes(cw) ==
  << Pub(makeTopic(<< <<"we">>, nodeId, <<"current_wallpaper">>, <<"state">> >>),
         Json([id |-> cw.id, title |-> cw.title]), TRUE),
     Pub(makeTopic(<< <<"we">>, nodeId, <<"current_wallpaper">>, <<"attributes">> >>),
         Json([id |-> cw.id, title |-> cw.title, properties |-> cw.properties]), TRUE),
     Pub(StateTopic("select_wallpaper"), Text(cw.id), TRUE),
     Pub(LastSetTopic, Text(JSONStringify(PropertiesOrEmpty(cw))), TRUE) >>

\* publishCurrentWallpaper after its await; next is where the caller goes on
CurrentResume(task, ok, cw, next) ==
  IF ok THEN Go(task, next, <<Settled(TRUE)>> \o CurrentPublishes(cw))
  ELSE Go(task, next, <<Settled(FALSE)>>)

----------------------------------------------------------------------------
(* Discovery: initialSyncAndDiscovery *)

DeviceName == <<"Wallpaper Engine (">> \o localIp \o <<")">>

Registration(name, uid, cmd, st, opts, ip) ==
  [name |-> name, unique_id |-> nodeId \o <<"_", uid>>, device |-> haDevice(ip),
   command_topic |-> cmd, state_topic |-> st, options |-> opts]

\* the entity list of main.ts and part_001
LoopEntities ==
  << [type |-> "switch", id |-> "show_icons", name |-> "Show icons"],
     [type |-> "switch", id |-> "muted", name |-> "Muted"],
     [type |-> "switch", id |-> "paused", name |-> "Paused"],
     [type |-> "button", id |-> "button_play", name |-> "Play"],
     [type |-> "button", id |-> "button_stop", name |-> "Stop"],
     [type |-> "select", id |-> "select_wallpaper", name |-> "Wallpaper"],
     [type |-> "select", id |-> "select_profile", name |-> "Profile"],
     [type |-> "sensor", id |-> "properties_instructions", name |-> "Wallpaper Properties"] >>

LoopRegistration(e) ==
  publishJson(haDiscoveryTopic(e.type, nodeId, e.id),
    Registration(DeviceName \o <<" ", e.name>>, e.id,
      IF e.type \in {"switch", "button", "select"} THEN CmdTopic(e.id) ELSE <<>>,
      IF e.type \in {"switch", "select"} THEN StateTopic(e.id)
        ELSE IF e.type = "sensor" THEN LastSetTopic ELSE <<>>,
      <<>>, localIp),
    TRUE)

\* the nine registrations part_000 writes out one by one
ExplicitRegistrations ==
  LET reg(type, id, uid, name, cmd, st) ==
        publishJson(haDiscoveryTopic(type, nodeId, id),
          Registration(DeviceName \o <<" ", name>>, uid, cmd, st, <<>>, localIp), TRUE)
  IN << reg("switch", "show_icons", "show_icons", "Show icons",
            CmdTopic("show_icons"), StateTopic("show_icons")),
        reg("switch", "muted", "muted", "Muted", CmdTopic("muted"), StateTopic("muted")),
        reg("switch", "paused", "paused", "Paused", CmdTopic("paused"), StateTopic("paused")),
        reg("button", "button_play", "play", "Play", CmdTopic("button_play"), <<>>),
        reg("button", "button_stop", "stop", "Stop", CmdTopic("button_stop"), <<>>),
        reg("sensor", "current_wallpaper", "current_wallpaper", "Current Wallpaper", <<>>,
            makeTopic(<< <<"we">>, nodeId, <<"current_wallpaper">>, <<"state">> >>)),
        reg("select", "select_wallpaper", "select_wallpaper", "Wallpaper",
            CmdTopic("select_wallpaper"), StateTopic("select_wallpaper")),
        reg("select", "select_profile", "select_profile", "Profile",
            CmdTopic("select_profile"), StateTopic("select_profile")),
        reg("sensor", "properties_instructions", "properties_instructions",
            "Wallpaper Properties", <<>>, LastSetTopic) >>

initialSyncAndDiscovery(v) ==
  IF v = "p0" THEN ExplicitRegistrations
  ELSE [i \in 1..Len(LoopEntities) |-> LoopRegistration(LoopEntities[i])]

\* the order in which subscribeCommandTopics subscribes
SubscribeList(v) ==
  IF v = "p0"
  THEN <<CmdTopic("show_icons"), StateTopic("show_icons")>>
       \o [i \in 1..(Len(CommandNames) - 1) |-> CmdTopic(CommandNames[i + 1])]
  ELSE [i \in 1..Len(CommandNames) |-> CmdTopic(CommandNames[i])]

SubscribeEvents(v) == [i \in 1..Len(SubscribeList(v)) |-> Sub(SubscribeList(v)[i])]

----------------------------------------------------------------------------
(* The refresh pass: refreshWallpapersProfiles(AndCurrent) *)

\* wp.map(w => ({ id: w.id || w.path, title: w.title }))
MapCatalog(wp) ==
  [i \in 1..Len(wp) |->
     [id |-> IF wp[i].id.def /\ wp[i].id.s # <<>> THEN wp[i].id.s ELSE wp[i].path,
      title |-> wp[i].title]]

\* ['all',0,1,2].map(m => `${w.title} (${w.id})|${m}`)
OptionsOf(w) ==
  << Render(w) \o <<"|">> \o sAll,
     Render(w) \o <<"|">> \o Digits(0),
     Render(w) \o <<"|">> \o Digits(1),
     Render(w) \o <<"|">> \o Digits(2) >>

RECURSIVE WallpaperOptionsP1(_)
WallpaperOptionsP1(wps) ==
  IF Len(wps) = 0 THEN <<>> ELSE OptionsOf(Head(wps)) \o WallpaperOptionsP1(Tail(wps))

\* the option list of the select_wallpaper registration
WallpaperOptions(v, wps) ==
  IF v = "p1" THEN WallpaperOptionsP1(wps) ELSE [i \in 1..Len(wps) |-> wps[i].id]

\* the address the pass puts into the device of its registrations:
\* haDevice(getLocalIPv4()) in main.ts and part_001, haDevice(localIp) in part_000
RefreshIp(v) == IF v = "p0" THEN localIp ELSE getLocalIPv4(ifaces)

\* the two select registrations a pass re-publishes
RefreshRegistrations(v, wps, profs) ==
  << publishJson(haDiscoveryTopic("select", nodeId, "select_wallpaper"),
       Registration(<<"Wallpaper">>, "select_wallpaper", CmdTopic("select_wallpaper"),
                    StateTopic("select_wallpaper"), WallpaperOptions(v, wps), RefreshIp(v)), TRUE),
     publishJson(haDiscoveryTopic("select", nodeId, "select_profile"),
       Registration(<<"Profile">>, "select_profile", CmdTopic("select_profile"),
                    StateTopic("select_profile"), profs, RefreshIp(v)), TRUE) >>

\* the raw catalogs published without the retain flag
ListPublishesVolatile(wps, profs) ==
  << Pub(makeTopic(<< <<"we">>, nodeId, <<"wallpapers">>, <<"list">> >>), Json(wps), FALSE),
     Pub(makeTopic(<< <<"we">>, nodeId, <<"profiles">>, <<"list">> >>), Json(profs), FALSE) >>

\* the raw catalogs, published last
ListPublishes(wps, profs) ==
  << Pub(makeTopic(<< <<"we">>, nodeId, <<"wallpapers">>, <<"list">> >>), Json(wps), TRUE),
     Pub(makeTopic(<< <<"we">>, nodeId, <<"profiles">>, <<"list">> >>), Json(profs), TRUE) >>

\* the pass is over; the connect handler then arms the timer
EndRefresh(task, evs) ==
  IF task.kind = "connect" THEN Go(task, "done", evs \o <<Armed>>)
  ELSE Go(task, "done", evs)

\* a pass that lets the failure of listWallpapers reach its caller: the
\* connect handler ends before it arms the timer
ListWallpapersResumeRaising(task, ok) ==
  IF ok THEN Go(task, "listP", <<Settled(TRUE), Call(apiListP, <<>>)>>)
  ELSE Go(task, "done", <<Settled(FALSE)>>)

\* after listWallpapers settled
ListWallpapersResume(task, ok) ==
  IF ok THEN Go(task, "listP", <<Settled(TRUE), Call(apiListP, <<>>)>>)
  ELSE EndRefresh(task, <<Settled(FALSE)>>)

\* profiles = await weApi.listProfiles() || []
ProfilesOrEmpty(pr) == IF pr.def THEN pr.l ELSE <<>>

\* after listProfiles settled; wps and profs are the catalogs as they then are
ListProfilesResume(v, task, ok, wps, profs) ==
  IF ~ok THEN EndRefresh(task, <<Settled(FALSE)>>)
  ELSE IF v = "p0"
  THEN Go(task, "currentR",
          <<Settled(TRUE)>> \o RefreshRegistrations(v, wps, profs) \o <<Call(apiCurrent, <<>>)>>)
  ELSE EndRefresh(task,
          <<Settled(TRUE)>> \o RefreshRegistrations(v, wps, profs) \o ListPublishes(wps, profs))

----------------------------------------------------------------------------
(* client.on('connect') *)

\* the connect handler subscribing before it registers the entities
AfterInitSubscribeFirst(v, task, evs) ==
  Go(task, "listW",
     evs \o SubscribeEvents(v) \o initialSyncAndDiscovery(v) \o <<Call(apiListW, <<>>)>>)

\* discovery, subscription and the start of the first refresh pass
AfterInit(v, task, evs) ==
  Go(task, "listW",
     evs \o initialSyncAndDiscovery(v) \o SubscribeEvents(v) \o <<Call(apiListW, <<>>)>>)

ConnectStart(v) ==
  LET base   == [Idle EXCEPT !.kind = "connect"]
      online == Pub(StatusTopic, Text(sOnline), TRUE)
  IN  IF v = "p1" THEN Go(base, "init1", <<online, Call(apiShowIcons, <<>>)>>)
      ELSE AfterInit(v, base, <<online>>)

\* part_001: showIcons, unmute, play in one try block, then the state reset
InitResume(v, task, st, ok) ==
  IF ~ok THEN [task |-> AfterInit(v, task, <<Settled(FALSE)>>), state |-> st]
  ELSE IF task.pc = "init1"
  THEN [task |-> Go(task, "init2", <<Settled(TRUE), Call(apiUnmute, <<>>)>>), state |-> st]
  ELSE IF task.pc = "init2"
  THEN [task |-> Go(task, "init3", <<Settled(TRUE), Call(apiPlay, <<>>)>>), state |-> st]
  ELSE [task |-> AfterInit(v, task, <<Settled(TRUE)>>), state |-> InitialState]

----------------------------------------------------------------------------
(* process.on('SIGINT') *)

\* the handler calling client.end without waiting for the publish callback
SigintStartNoWait ==
  Go([Idle EXCEPT !.kind = "sigint"], "closing",
     <<Pub(StatusTopic, Text(sOffline), TRUE), Call(clientEnd, <<"force">>)>>)

\* client.publish(status, 'offline', {retain:true}, callback)
SigintStart ==
  Go([Idle EXCEPT !.kind = "sigint"], "offline", <<Pub(StatusTopic, Text(sOffline), TRUE)>>)

\* the publish callback, whose error argument is ignored: client.end(true, callback)
OfflineResume(task, ok) ==
  Go(task, "closing", <<Settled(ok), Call(clientEnd, <<"force">>)>>)

\* the end callback: process.exit(0)
EndResume(task) == Go(task, "exited", <<Settled(TRUE), Exit(0)>>)

----------------------------------------------------------------------------
(* Actions *)

\* slot t now holds task: its new events reach the broker
Commit(t, task) ==
  LET new == SubSeq(task.ev, Len(tasks[t].ev) + 1, Len(task.ev))
  IN  /\ tasks' = [tasks EXCEPT ![t] = task]
      /\ retained' = ApplyPubs(retained, new)
      /\ registry' = FirstRegistrations(registry, new)

\* the broker delivers a message on a subscribed topic
Deliver(topic, msg) ==
  /\ HasFree
  /\ transport = "open"
  /\ topic \in subs
  /\ Commit(FreeSlot, Begin(StartMessage(variant, topic, msg, wallpapers)))
  /\ UNCHANGED <<variant, ifaces, localIp, nodeId, transport, exited,
                 state, wallpapers, profiles, subs, timers, connects>>

ToggleDone(t, ok) ==
  /\ NoneDone
  /\ tasks[t].pc = "toggle"
  /\ LET r == ToggleResume(variant, tasks[t], state, ok)
     IN  Commit(t, r.task) /\ state' = r.state
  /\ UNCHANGED <<variant, ifaces, localIp, nodeId, transport, exited,
                 wallpapers, profiles, subs, timers, connects>>

ButtonDone(t, ok) ==
  /\ NoneDone
  /\ tasks[t].pc = "button"
  /\ Commit(t, ButtonResume(tasks[t], ok))
  /\ UNCHANGED <<variant, ifaces, localIp, nodeId, transport, exited,
                 state, wallpapers, profiles, subs, timers, connects>>

LoadDone(t, ok) ==
  /\ NoneDone
  /\ tasks[t].pc = "load"
  /\ Commit(t, LoadResume(variant, tasks[t], ok))
  /\ UNCHANGED <<variant, ifaces, localIp, nodeId, transport, exited,
                 state, wallpapers, profiles, subs, timers, connects>>

ProfileDone(t, ok) ==
  /\ NoneDone
  /\ tasks[t].pc = "profile"
  /\ Commit(t, ProfileResume(variant, tasks[t], ok))
  /\ UNCHANGED <<variant, ifaces, localIp, nodeId, transport, exited,
                 state, wallpapers, profiles, subs, timers, connects>>

ApplyDone(t, ok) ==
  /\ NoneDone
  /\ tasks[t].pc = "apply"
  /\ Commit(t, ApplyResume(variant, tasks[t], ok))
  /\ UNCHANGED <<variant, ifaces, localIp, nodeId, transport, exited,
                 state, wallpapers, profiles, subs, timers, connects>>

\* publishCurrentWallpaper called by a command handler (part_000)
CurrentDone(t, ok, cw) ==
  /\ NoneDone
  /\ tasks[t].pc = "current"
  /\ Commit(t, CurrentResume(tasks[t], ok, cw, "done"))
  /\ UNCHANGED <<variant, ifaces, localIp, nodeId, transport, exited,
                 state, wallpapers, profiles, subs, timers, connects>>

\* publishCurrentWallpaper called by the refresh pass (part_000)
RefreshCurrentDone(t, ok, cw) ==
  /\ NoneDone
  /\ tasks[t].pc = "currentR"
  /\ Commit(t, CurrentResume(tasks[t], ok, cw, "ret"))
  /\ UNCHANGED <<variant, ifaces, localIp, nodeId, transport, exited,
                 state, wallpapers, profiles, subs, timers, connects>>

\* the pass goes on after publishCurrentWallpaper returned (part_000)
RefreshReturn(t) ==
  /\ NoneDone
  /\ tasks[t].pc = "ret"
  /\ Commit(t, EndRefresh(tasks[t], ListPublishes(wallpapers, profiles)))
  /\ timers' = IF tasks[t].kind = "connect" THEN timers + 1 ELSE timers
  /\ UNCHANGED <<variant, ifaces, localIp, nodeId, transport, exited,
                 state, wallpapers, profiles, subs, connects>>

ListWallpapersDone(t, ok, wp) ==
  /\ NoneDone
  /\ tasks[t].pc = "listW"
  /\ Commit(t, ListWallpapersResume(tasks[t], ok))
  /\ wallpapers' = IF ok THEN MapCatalog(wp) ELSE wallpapers
  /\ timers' = IF ~ok /\ tasks[t].kind = "connect" THEN timers + 1 ELSE timers
  /\ UNCHANGED <<variant, ifaces, localIp, nodeId, transport, exited,
                 state, profiles, subs, connects>>

ListProfilesDone(t, ok, pr) ==
  /\ NoneDone
  /\ tasks[t].pc = "listP"
  /\ profiles' = IF ok THEN ProfilesOrEmpty(pr) ELSE profiles
  /\ Commit(t, ListProfilesResume(variant, tasks[t], ok, wallpapers, profiles'))
  /\ timers' = IF tasks[t].kind = "connect" /\ (~ok \/ variant # "p0")
               THEN timers + 1 ELSE timers
  /\ UNCHANGED <<variant, ifaces, localIp, nodeId, transport, exited,
                 state, wallpapers, subs, connects>>

\* the broker client connects (the first time, or again)
Connect ==
  /\ HasFree
  /\ transport = "open"
  /\ connects < MaxConnects
  /\ connects' = connects + 1
  /\ Commit(FreeSlot, Begin(ConnectStart(variant)))
  /\ subs' = IF variant = "p1" THEN subs ELSE subs \cup subscribeCommandTopics(variant)
  /\ UNCHANGED <<variant, ifaces, localIp, nodeId, transport, exited,
                 state, wallpapers, profiles, timers>>

\* part_001: one of the three startup calls settled
InitDone(t, ok) ==
  /\ NoneDone
  /\ tasks[t].pc \in {"init1", "init2", "init3"}
  /\ LET r == InitResume(variant, tasks[t], state, ok)
     IN  /\ Commit(t, r.task)
         /\ state' = r.state
         /\ subs' = IF r.task.pc = "listW" THEN subs \cup subscribeCommandTopics(variant)
                    ELSE subs
  /\ UNCHANGED <<variant, ifaces, localIp, nodeId, transport, exited,
                 wallpapers, profiles, timers, connects>>

\* a recurring timer fires: setInterval's callback starts a pass
Tick ==
  /\ HasFree
  /\ timers > 0
  /\ Commit(FreeSlot, Begin(Go([Idle EXCEPT !.kind = "tick"], "listW", <<Call(apiListW, <<>>)>>)))
  /\ UNCHANGED <<variant, ifaces, localIp, nodeId, transport, exited,
                 state, wallpapers, profiles, subs, timers, connects>>

\* the interrupt signal arrives
Sigint ==
  /\ HasFree
  /\ Commit(FreeSlot, Begin(SigintStart))
  /\ UNCHANGED <<variant, ifaces, localIp, nodeId, transport, exited,
                 state, wallpapers, profiles, subs, timers, connects>>

\* The client calls the publish callback: without error once the message is
\* handed to a connected transport, with an error when the client is already
\* disconnecting.  The handler then ends the client.
OfflineDone(t, ok) ==
  /\ NoneDone
  /\ tasks[t].pc = "offline"
  /\ connects > 0
  /\ ok <=> transport = "open"
  /\ Commit(t, OfflineResume(tasks[t], ok))
  /\ transport' = IF transport = "open" THEN "closing" ELSE transport
  /\ UNCHANGED <<variant, ifaces, localIp, nodeId, exited,
                 state, wallpapers, profiles, subs, timers, connects>>

\* The client calls the end callback when the connection is closed; the
\* callback exits the process.
EndDone(t) ==
  /\ NoneDone
  /\ tasks[t].pc = "closing"
  /\ Commit(t, EndResume(tasks[t]))
  /\ transport' = "closed"
  /\ exited' = Digits(0)
  /\ UNCHANGED <<variant, ifaces, localIp, nodeId,
                 state, wallpapers, profiles, subs, timers, connects>>

\* the machine's network configuration changes (DHCP, VPN, cable) while the
\* process runs
NetworkChange(c) ==
  /\ NoneDone
  /\ c # ifaces
  /\ ifaces' = c
  /\ UNCHANGED <<variant, localIp, nodeId, transport, exited, state, wallpapers, profiles,
                 tasks, subs, timers, connects, retained, registry>>

\* the finished handler of a toggle command has published its state while
\* the handler in slot u, of an earlier command on the same topic, still runs
Overtakes(task, u) ==
  /\ task.kind = "msg"
  /\ \E c \in ToggleNames : task.topic = CmdTopic(c)
  /\ u \in task.older
  /\ \E i \in 1..Len(task.ev) : task.ev[i].e = "pub"

\* a finished handler is forgotten
Retire(t) ==
  /\ Running
  /\ tasks[t].pc = "done"
  /\ tasks' = [u \in Slots |->
                IF u = t THEN Idle
                ELSE [tasks[u] EXCEPT !.older = @ \ {t},
                                      !.overtaken = IF Overtakes(tasks[t], u) THEN @ \cup {tasks[t].on}
                                                    ELSE @]]
  /\ UNCHANGED <<variant, ifaces, localIp, nodeId, transport, exited, state, wallpapers,
                 profiles, subs, timers, connects, retained, registry>>

----------------------------------------------------------------------------
(* Specifications.  The program is one state machine; each specification  *)
(* lets the environment (the broker and the control API) exercise the     *)
(* commands a group of properties is about, always together with the      *)
(* connect handler, reconnects and the refresh pass the handler runs.     *)

\* connect, reconnect, the first refresh pass, and forgetting finished handlers
Lifecycle(catalogs, profs, currents) ==
  \/ Connect
  \/ \E t \in Slots, ok \in BOOLEAN : InitDone(t, ok)
  \/ \E t \in Slots, ok \in BOOLEAN, wp \in catalogs : ListWallpapersDone(t, ok, wp)
  \/ \E t \in Slots, ok \in BOOLEAN, pr \in profs : ListProfilesDone(t, ok, pr)
  \/ \E t \in Slots, ok \in BOOLEAN, cw \in currents : RefreshCurrentDone(t, ok, cw)
  \/ \E t \in Slots : RefreshReturn(t)
  \/ \E t \in Slots : Retire(t)

OneCatalog == {<<ApiW1>>}
OneProfiles == {[def |-> TRUE, l |-> <<<<"W">>>>]}
OneCurrent == {CHOOSE cw \in ApiCurrents : cw.properties.def}

ToggleTopics == {CmdTopic(c) : c \in ToggleNames}

AllIdle == \A t \in Slots : tasks[t].kind = "idle"

\* toggle commands with every payload, one command at a time, overlapping
\* the connect handler
NextPayload ==
  \/ \E topic \in subs \cap ToggleTopics : \E msg \in TogglePayloads :
       AllIdle /\ Deliver(topic, msg)
  \/ \E t \in Slots, ok \in BOOLEAN : ToggleDone(t, ok)
  \/ Lifecycle(OneCatalog, OneProfiles, OneCurrent)

SpecPayload == InitHome /\ [][NextPayload]_vars

OverlapPayloads == {sON, sOFF}

\* toggle commands overlapping each other and the connect handler
NextToggle ==
  \/ \E topic \in subs \cap ToggleTopics : \E msg \in OverlapPayloads : Deliver(topic, msg)
  \/ \E t \in Slots, ok \in BOOLEAN : ToggleDone(t, ok)
  \/ Lifecycle(OneCatalog, OneProfiles, OneCurrent)

SpecToggle == InitHome /\ [][NextToggle]_vars

\* wallpaper selection and refresh passes (on connect, on the timer, on
\* refresh/set), overlapping each other
NextCatalog ==
  \/ \E msg \in WallpaperPayloads : Deliver(CmdTopic("select_wallpaper"), msg)
  \/ Deliver(CmdTopic("refresh"), sEmpty)
  \/ \E t \in Slots, ok \in BOOLEAN : LoadDone(t, ok)
  \/ \E t \in Slots, ok \in BOOLEAN, cw \in ApiCurrents : CurrentDone(t, ok, cw)
  \/ Tick
  \/ Lifecycle(ApiCatalogs, ApiProfiles, ApiCurrents)

SpecCatalog == InitHome /\ [][NextCatalog]_vars

\* buttons, profile selection and properties, overlapping each other
NextCommand ==
  \/ \E c \in ButtonNames, msg \in ButtonPayloads : Deliver(CmdTopic(c), msg)
  \/ \E msg \in ProfilePayloads : Deliver(CmdTopic("select_profile"), msg)
  \/ \E msg \in PropertyPayloads : Deliver(CmdTopic("properties"), msg)
  \/ \E t \in Slots, ok \in BOOLEAN : ButtonDone(t, ok)
  \/ \E t \in Slots, ok \in BOOLEAN : ProfileDone(t, ok)
  \/ \E t \in Slots, ok \in BOOLEAN : ApplyDone(t, ok)
  \/ \E t \in Slots, ok \in BOOLEAN, cw \in ApiCurrents : CurrentDone(t, ok, cw)
  \/ Lifecycle(OneCatalog, OneProfiles, OneCurrent)

SpecCommand == InitHome /\ [][NextCommand]_vars

\* the handlers of the interrupt signal
Shutdown ==
  \/ Sigint
  \/ \E t \in Slots, ok \in BOOLEAN : OfflineDone(t, ok)
  \/ \E t \in Slots : EndDone(t)

\* the interrupt signal, once or again, overlapping button commands, the
\* connect handler and reconnects
NextSignal ==
  \/ Shutdown
  \/ \E c \in ButtonNames : Deliver(CmdTopic(c), sON)
  \/ \E t \in Slots, ok \in BOOLEAN : ButtonDone(t, ok)
  \/ Lifecycle(OneCatalog, OneProfiles, OneCurrent)

SpecSignal == InitHome /\ [][NextSignal]_vars

\* every command, the timer, the connect event and the interrupt signal, each
\* handled to its end before the next one arrives
NextSerial ==
  \/ \E topic \in subs : \E msg \in PayloadsFor(topic) : AllIdle /\ Deliver(topic, msg)
  \/ AllIdle /\ Tick
  \/ AllIdle /\ Connect
  \/ \E t \in Slots, ok \in BOOLEAN : ToggleDone(t, ok)
  \/ \E t \in Slots, ok \in BOOLEAN : ButtonDone(t, ok)
  \/ \E t \in Slots, ok \in BOOLEAN : LoadDone(t, ok)
  \/ \E t \in Slots, ok \in BOOLEAN : ProfileDone(t, ok)
  \/ \E t \in Slots, ok \in BOOLEAN : ApplyDone(t, ok)
  \/ \E t \in Slots, ok \in BOOLEAN, cw \in ApiCurrents : CurrentDone(t, ok, cw)
  \/ \E t \in Slots, ok \in BOOLEAN : InitDone(t, ok)
  \/ \E t \in Slots, ok \in BOOLEAN, wp \in ApiCatalogs : ListWallpapersDone(t, ok, wp)
  \/ \E t \in Slots, ok \in BOOLEAN, pr \in ApiProfiles : ListProfilesDone(t, ok, pr)
  \/ \E t \in Slots, ok \in BOOLEAN, cw \in ApiCurrents : RefreshCurrentDone(t, ok, cw)
  \/ \E t \in Slots : RefreshReturn(t)
  \/ \E t \in Slots : Retire(t)
  \/ AllIdle /\ Sigint
  \/ \E t \in Slots, ok \in BOOLEAN : OfflineDone(t, ok)
  \/ \E t \in Slots : EndDone(t)

SpecSerial == InitHome /\ [][NextSerial]_vars

\* refresh passes (on connect, on the timer, on refresh/set) on a machine
\* whose network configuration changes
NextNetwork ==
  \/ \E c \in IfaceConfigs : NetworkChange(c)
  \/ AllIdle /\ Deliver(CmdTopic("refresh"), sEmpty)
  \/ AllIdle /\ Tick
  \/ Lifecycle(OneCatalog, OneProfiles, OneCurrent)

SpecNetwork == Init /\ [][NextNetwork]_vars

\* wallpaper selection and refresh passes, each handled to its end before the
\* next one starts, with reconnects
NextSelect ==
  \/ \E msg \in WallpaperPayloads : AllIdle /\ Deliver(CmdTopic("select_wallpaper"), msg)
  \/ AllIdle /\ Deliver(CmdTopic("refresh"), sEmpty)
  \/ \E t \in Slots, ok \in BOOLEAN : LoadDone(t, ok)
  \/ \E t \in Slots, ok \in BOOLEAN, cw \in ApiCurrents : CurrentDone(t, ok, cw)
  \/ AllIdle /\ Tick
  \/ Lifecycle(ApiCatalogs, ApiProfiles, ApiCurrents)

SpecSelect == InitSelect /\ [][NextSelect]_vars

\* the whole program
Next ==
  \/ \E c \in IfaceConfigs : NetworkChange(c)
  \/ \E topic \in subs : \E msg \in PayloadsFor(topic) : Deliver(topic, msg)
  \/ \E t \in Slots, ok \in BOOLEAN : ToggleDone(t, ok)
  \/ \E t \in Slots, ok \in BOOLEAN : ButtonDone(t, ok)
  \/ \E t \in Slots, ok \in BOOLEAN : LoadDone(t, ok)
  \/ \E t \in Slots, ok \in BOOLEAN : ProfileDone(t, ok)
  \/ \E t \in Slots, ok \in BOOLEAN : ApplyDone(t, ok)
  \/ \E t \in Slots, ok \in BOOLEAN, cw \in ApiCurrents : CurrentDone(t, ok, cw)
  \/ Tick
  \/ Shutdown
  \/ Lifecycle(ApiCatalogs, ApiProfiles, ApiCurrents)

Spec == Init /\ [][Next]_vars

----------------------------------------------------------------------------
(* Properties *)

IsCall(e)  == e.e = "call"
IsPub(e)   == e.e = "pub"

\* the control-API calls a task has made, in order
CallsOf(task) == SelectSeq(task.ev, IsCall)

\* the publishes of a task on one topic, in order
PubsOn(task, topic) ==
  LET onTopic(e) == e.e = "pub" /\ e.name = topic
  IN  SelectSeq(task.ev, onTopic)

\* the i-th awaited call of the task settled without an error
SettledOk(task, i) ==
  LET s == SelectSeq(task.ev, LAMBDA e : e.e \in {"ok", "err"})
  IN  i <= Len(s) /\ s[i].e = "ok"

Handles(t, topic) == tasks[t].kind = "msg" /\ tasks[t].topic = topic

\* The payloads C1 names as true; every other payload is false.
TruePayloads == {sON, sOne, sTrue, sUPPER, sMixed}

EnableCall(c)  == IF c = "show_icons" THEN apiShowIcons
                  ELSE IF c = "muted" THEN apiMute ELSE apiPause
DisableCall(c) == IF c = "show_icons" THEN apiHideIcons
                  ELSE IF c = "muted" THEN apiUnmute ELSE apiPlay

\* the toggles whose payload the variant interprets
InterpretedToggles == IF variant = "p1" THEN ToggleNames ELSE {"show_icons", "muted"}

\* C1: a toggle payload is true exactly when it is "ON", "1" or lower-cases to
\* "true"; a true payload makes the handler call the enable method and nothing
\* else, any other payload the disable method and nothing else.
C1_PayloadInterpretation ==
  \A t \in Slots : \A c \in InterpretedToggles :
    Handles(t, CmdTopic(c)) =>
      /\ tasks[t].msg \in TruePayloads
           => CallsOf(tasks[t]) = <<Call(EnableCall(c), <<>>)>>
      /\ tasks[t].msg \notin TruePayloads
           => CallsOf(tasks[t]) = <<Call(DisableCall(c), <<>>)>>

\* a mixed-case "tRuE" on paused/set (part_001) has called pause, and nothing else
C1_Witness ==
  \E t \in Slots :
    /\ variant = "p1"
    /\ Handles(t, CmdTopic("paused"))
    /\ tasks[t].msg = sMixed
    /\ tasks[t].pc = "done"
    /\ CallsOf(tasks[t]) = <<Call(apiPause, <<>>)>>

\* C2: when the control call of a toggle command completed, the handler has
\* published exactly one message on the toggle's state topic, retained, "ON" or
\* "OFF", and "ON" exactly when the toggle's shadow boolean is now true.
C2_TogglePublish ==
  \A t \in Slots : \A c \in ToggleNames :
    (Handles(t, CmdTopic(c)) /\ tasks[t].pc = "done" /\ SettledOk(tasks[t], 1)) =>
      LET pubs == PubsOn(tasks[t], StateTopic(c))
      IN  /\ Len(pubs) = 1
          /\ pubs[1].payload \in {Text(sON), Text(sOFF)}
          /\ (pubs[1].payload = Text(sON)) <=> ToggleField(c, state)

\* a paused/set command of main.ts has flipped paused to true and published "ON"
C2_Witness ==
  \E t \in Slots :
    /\ variant = "main"
    /\ Handles(t, CmdTopic("paused"))
    /\ tasks[t].pc = "done"
    /\ SettledOk(tasks[t], 1)
    /\ state.paused
    /\ PubsOn(tasks[t], StateTopic("paused")) = <<Pub(StateTopic("paused"), Text(sON), TRUE)>>

\* C3 (as claimed): in part_001 a completed paused/set command with a true
\* payload has called pause, left paused true and published "ON"; with a false
\* payload it has called play, left paused false and published "OFF".
C3_PauseExplicit ==
  \A t \in Slots :
    (variant = "p1" /\ Handles(t, CmdTopic("paused")) /\ tasks[t].pc = "done"
       /\ SettledOk(tasks[t], 1)) =>
      LET on == tasks[t].msg \in TruePayloads
      IN  /\ CallsOf(tasks[t]) = <<Call(IF on THEN apiPause ELSE apiPlay, <<>>)>>
          /\ state.paused = on
          /\ PubsOn(tasks[t], StateTopic("paused"))
               = <<Pub(StateTopic("paused"), Text(OnOff(on)), TRUE)>>

\* every id an in-memory catalog of the model can hold
KnownIds ==
  UNION {{MapCatalog(c)[i].id : i \in 1..Len(c)} : c \in ApiCatalogs}

\* the payload names no entry of the catalog the handler saw: not by its
\* "title (id)" rendering before the first "|", not as a whole, not as a bare id
Unresolved(task) ==
  /\ ~\E i \in 1..Len(task.cat) :
        \/ Render(task.cat[i]) = Split(task.msg, "|")[1]
        \/ \E sel \in {sAll, Digits(0), Digits(1), Digits(2)} :
             task.msg = Render(task.cat[i]) \o <<"|">> \o sel
        \/ task.cat[i].id = task.msg
  /\ task.msg \notin KnownIds

LoadCalls(task) ==
  LET isLoad(e) == e.e = "call" /\ e.name = apiLoad
  IN  SelectSeq(task.ev, isLoad)

\* C4 (as claimed): a select_wallpaper command whose payload names no entry of
\* the catalog makes no load call and publishes nothing on select_wallpaper/state.
C4_UnresolvedSelect ==
  \A t \in Slots :
    (Handles(t, CmdTopic("select_wallpaper")) /\ Unresolved(tasks[t])) =>
      /\ LoadCalls(tasks[t]) = <<>>
      /\ PubsOn(tasks[t], StateTopic("select_wallpaper")) = <<>>

\* the payload is "<title> (<id>)|all" for entry i of the catalog the handler saw
NamesAll(task, i) ==
  /\ i \in 1..Len(task.cat)
  /\ task.msg = Render(task.cat[i]) \o <<"|">> \o sAll

\* what C5 expects of a finished handler for entry w: loads on 0, 1, 2, then
\* one retained publish of the payload, and nothing after it
LoadedOnAll(task, w) ==
  /\ LoadCalls(task) = << Call(apiLoad, <<w.id, Int32(0)>>),
                          Call(apiLoad, <<w.id, Int32(1)>>),
                          Call(apiLoad, <<w.id, Int32(2)>>) >>
  /\ PubsOn(task, StateTopic("select_wallpaper")) = <<SelectPublish(task.msg)>>
  /\ task.ev[Len(task.ev)] = SelectPublish(task.msg)

\* C5 (as claimed): in part_001 a payload "<title> (<id>)|all" that renders a
\* catalog entry loads that entry's id on monitors 0, 1, 2 in that order and
\* then publishes the payload, retained, on select_wallpaper/state.
C5_SelectAll ==
  \A t \in Slots :
    (variant = "p1" /\ Handles(t, CmdTopic("select_wallpaper")) /\ tasks[t].pc = "done") =>
      \A i \in 1..Len(tasks[t].cat) :
        NamesAll(tasks[t], i) => LoadedOnAll(tasks[t], tasks[t].cat[i])

\* C5 holds of the entries whose rendering has no "|"
C5_SelectAllNoBar ==
  \A t \in Slots :
    (variant = "p1" /\ Handles(t, CmdTopic("select_wallpaper")) /\ tasks[t].pc = "done") =>
      \A i \in 1..Len(tasks[t].cat) :
        (NamesAll(tasks[t], i) /\ Len(Split(Render(tasks[t].cat[i]), "|")) = 1)
          => LoadedOnAll(tasks[t], tasks[t].cat[i])

\* a step of the task in slot t
Acts(t) == tasks'[t] # tasks[t]

Malformed(msg) == ~JSONParse(msg).ok

\* C6: a properties/set command whose payload does not parse as JSON makes no
\* applyProperties call and no publish, changes neither the shadow state nor
\* the catalogs nor any retained value, and its handler ends at once, so that
\* the slot is free for the next message.
C6_MalformedProperties ==
  /\ [](\A t \in Slots :
          (Handles(t, CmdTopic("properties")) /\ Malformed(tasks[t].msg)) =>
            /\ tasks[t].pc = "done"
            /\ tasks[t].ev = <<>>
            /\ ENABLED Retire(t))
  /\ [][\A t \in Slots :
          (Acts(t) /\ tasks'[t].kind = "msg" /\ tasks'[t].topic = CmdTopic("properties")
             /\ Malformed(tasks'[t].msg)) =>
            /\ state' = state
            /\ wallpapers' = wallpapers
            /\ profiles' = profiles
            /\ retained' = retained]_vars

\* the truncated payload {"f":30 has been handled
C6_Witness ==
  \E t \in Slots :
    /\ Handles(t, CmdTopic("properties"))
    /\ tasks[t].msg = <<"{","\"","f","\"",":","3","0">>
    /\ tasks[t].pc = "done"

\* C7 (as claimed): a properties/set command whose payload parses and whose
\* apply call succeeded has made exactly one applyProperties call, with the
\* parsed object, and then exactly one publish on properties/last_set,
\* retained, whose text is JSON for the object that was sent.
C7_PropertiesApplied ==
  \A t \in Slots :
    (Handles(t, CmdTopic("properties")) /\ tasks[t].pc = "done" /\ SettledOk(tasks[t], 1)) =>
      LET sent == JSONParse(tasks[t].msg).val
          pubs == PubsOn(tasks[t], LastSetTopic)
      IN  /\ \E i \in 1..Len(CallsOf(tasks[t])) : CallsOf(tasks[t])[i] = Call(apiApply, <<sent>>)
          /\ Cardinality({i \in 1..Len(CallsOf(tasks[t])) : CallsOf(tasks[t])[i].name = apiApply}) = 1
          /\ Len(pubs) = 1
          /\ pubs[1].retain
          /\ JSONParse(pubs[1].payload.v) = [ok |-> TRUE, val |-> sent]

\* C8 (as claimed): a select_profile/set command has called profile().load
\* once with the payload and, when that call succeeded, has published the
\* payload unchanged, retained, on select_profile/state.
C8_ProfileSelected ==
  \A t \in Slots :
    (Handles(t, CmdTopic("select_profile")) /\ tasks[t].pc = "done") =>
      /\ CallsOf(tasks[t]) = <<Call(apiProfile, <<tasks[t].msg>>)>>
      /\ SettledOk(tasks[t], 1) =>
           PubsOn(tasks[t], StateTopic("select_profile"))
             = <<Pub(StateTopic("select_profile"), Text(tasks[t].msg), TRUE)>>

AllPubs(task) == SelectSeq(task.ev, IsPub)

\* C9 (as claimed): a finished button command has made its control call once
\* and then published "pressed", not retained, on its state topic.
C9_ButtonAlwaysPressed ==
  \A t \in Slots : \A c \in ButtonNames :
    (Handles(t, CmdTopic(c)) /\ tasks[t].pc = "done") =>
      /\ CallsOf(tasks[t]) = <<Call(ButtonCall(c), <<>>)>>
      /\ AllPubs(tasks[t]) = <<Pub(StateTopic(c), Text(sPressed), FALSE)>>

\* C9 (amended): a button command makes its control call once, whatever the
\* payload; when the call succeeded it then publishes exactly "pressed", not
\* retained, on its state topic, and when the call failed it publishes
\* nothing; it never publishes "ON" or "OFF" and never changes the shadow state.
C9_ButtonPressed ==
  /\ [](\A t \in Slots : \A c \in ButtonNames :
          Handles(t, CmdTopic(c)) =>
            /\ CallsOf(tasks[t]) = <<Call(ButtonCall(c), <<>>)>>
            /\ tasks[t].ev[1] = Call(ButtonCall(c), <<>>)
            /\ tasks[t].pc = "done" =>
                 AllPubs(tasks[t]) = IF SettledOk(tasks[t], 1)
                                       THEN <<Pub(StateTopic(c), Text(sPressed), FALSE)>>
                                       ELSE <<>>
            /\ \A i \in 1..Len(AllPubs(tasks[t])) :
                 AllPubs(tasks[t])[i].payload \notin {Text(sON), Text(sOFF)})
  /\ [][\A t \in Slots : \A c \in ButtonNames :
          (Acts(t) /\ (Handles(t, CmdTopic(c)) \/ tasks'[t].topic = CmdTopic(c)))
            => state' = state]_vars

\* button_stop/set with payload "ON" has called stop and published "pressed"
C9_Witness ==
  \E t \in Slots :
    /\ Handles(t, CmdTopic("button_stop"))
    /\ tasks[t].msg = sON
    /\ tasks[t].pc = "done"
    /\ tasks[t].ev = <<Call(apiStop, <<>>), Settled(TRUE),
                       Pub(StateTopic("button_stop"), Text(sPressed), FALSE)>>

\* C10 (as claimed): in a pass whose listWallpapers call failed, listProfiles
\* has been called all the same by the time the pass is over.
C10_PassGoesOn ==
  \A t \in Slots :
    tasks[t].pc = "done" =>
      \A i \in 1..(Len(tasks[t].ev) - 1) :
        (tasks[t].ev[i] = Call(apiListW, <<>>) /\ tasks[t].ev[i + 1] = Settled(FALSE)) =>
          \E j \in (i + 1)..Len(tasks[t].ev) : tasks[t].ev[j] = Call(apiListP, <<>>)

Registrations(task) == SelectSeq(task.ev, IsRegistration)

\* C11 (as claimed): every registration a handler has published carries the
\* unique_id and the device identifiers of the first registration that was
\* published on the same discovery topic since the process started.
C11_SameIdentity ==
  \A t \in Slots : \A i \in 1..Len(Registrations(tasks[t])) :
    LET e == Registrations(tasks[t])[i]
    IN  \E r \in registry :
          /\ r.topic = e.name
          /\ r.unique_id = e.payload.v.unique_id
          /\ r.identifiers = e.payload.v.device.identifiers

\* C11 where the pass uses the address resolved at startup (part_000)
C11_SameIdentityStartupAddress == variant = "p0" => C11_SameIdentity

\* C14: the node identifier is "wallpaper_engine_" followed by the address
\* resolved at startup with every "." replaced by "_"; it contains no ".";
\* any network configuration that resolves to the same address gives the
\* same identifier; and it never changes after startup, whatever happens to
\* the network configuration.
C14_NodeIdentifier ==
  /\ [](/\ Len(nodeId) = Len(localIp) + 1
        /\ nodeId[1] = "wallpaper_engine_"
        /\ \A i \in 1..Len(localIp) :
             nodeId[i + 1] = IF localIp[i] = Dot THEN "_" ELSE localIp[i]
        /\ \A i \in 1..Len(nodeId) : nodeId[i] # Dot
        /\ \A c \in IfaceConfigs :
             getLocalIPv4(c) = localIp => NodeIdOf(getLocalIPv4(c)) = nodeId)
  /\ [][nodeId' = nodeId /\ localIp' = localIp]_vars

\* the address resolved now differs from the one resolved at startup, and a
\* pass started by the timer has published under the node identifier
C14_Witness ==
  /\ getLocalIPv4(ifaces) # localIp
  /\ \E t \in Slots :
       /\ tasks[t].kind = "tick"
       /\ tasks[t].pc = "done"
       /\ \E i \in 1..Len(tasks[t].ev) :
            /\ IsRegistration(tasks[t].ev[i])
            /\ tasks[t].ev[i].payload.v.unique_id = nodeId \o <<"_", "select_wallpaper">>

IsPressed(e) ==
  /\ e.payload = Text(sPressed)
  /\ \E c \in ButtonNames : e.name = StateTopic(c)

\* C12: every publish is retained, on every topic (toggle and select state,
\* properties/last_set, current_wallpaper/state and /attributes,
\* wallpapers/list, profiles/list, the presence topic, the discovery topics),
\* except the "pressed" acknowledgments on button_play/state and
\* button_stop/state, which are the only publishes on those two topics and
\* are never retained.
C12_Retained ==
  \A t \in Slots : \A i \in 1..Len(AllPubs(tasks[t])) :
    LET e == AllPubs(tasks[t])[i]
    IN  /\ e.retain <=> ~IsPressed(e)
        /\ (\E c \in ButtonNames : e.name = StateTopic(c)) => IsPressed(e)

\* a pass of part_000 has published the current wallpaper's attributes and
\* the two lists
C12_Witness ==
  \E t \in Slots :
    /\ tasks[t].pc = "done"
    /\ PubsOn(tasks[t], makeTopic(<< <<"we">>, nodeId, <<"current_wallpaper">>, <<"attributes">> >>)) # <<>>
    /\ PubsOn(tasks[t], makeTopic(<< <<"we">>, nodeId, <<"profiles">>, <<"list">> >>)) # <<>>

OfflineHanded(task) ==
  /\ task.kind = "sigint"
  /\ Len(task.ev) >= 2
  /\ task.ev[1] = Pub(StatusTopic, Text(sOffline), TRUE)
  /\ task.ev[2] = Settled(TRUE)

\* C13: a handler of the interrupt signal first publishes "offline",
\* retained, on the presence topic, ends the client only in the callback of
\* that publish, and exits, with code 0, only in the callback of the end.
\* The connection is not closed before an "offline" publish has been handed
\* to the transport, and the process does not exit before the connection is
\* closed.
C13_OfflineCloseExit ==
  /\ \A t \in Slots : tasks[t].kind = "sigint" =>
       LET ev == tasks[t].ev
       IN  /\ ev[1] = Pub(StatusTopic, Text(sOffline), TRUE)
           /\ \A i \in 1..Len(ev) :
                /\ ev[i].e = "call" => i = 3 /\ ev[i].name = clientEnd /\ ev[2].e \in {"ok", "err"}
                /\ ev[i].e = "exit" => i = 5 /\ ev[i] = Exit(0) /\ ev[4] = Settled(TRUE)
  /\ transport # "open" => \E t \in Slots : OfflineHanded(tasks[t])
  /\ ~Running => /\ exited = Digits(0)
                 /\ transport = "closed"
                 /\ \E t \in Slots : OfflineHanded(tasks[t])

\* the process has exited while a second handler of the signal was waiting
C13_Witness ==
  /\ ~Running
  /\ \E t, u \in Slots :
       /\ t # u
       /\ tasks[t].pc = "exited"
       /\ tasks[u].kind = "sigint"

\* the task waits for a control-API call it has issued
CallInFlight(task) ==
  /\ Len(task.ev) > 0
  /\ task.ev[Len(task.ev)].e = "call"
  /\ task.ev[Len(task.ev)].name # clientEnd

\* C15 (as claimed): at most one handler waits for a control-API call.
C15_OneCallInFlight == Cardinality({t \in Slots : CallInFlight(tasks[t])}) <= 1

\* C16 (as claimed): a toggle command's handler that has published its state
\* has not been overtaken: no handler of a later command on the same topic
\* has published before it.
C16_ToggleOrder ==
  \A t \in Slots : \A c \in ToggleNames :
    (Handles(t, CmdTopic(c)) /\ tasks[t].pc = "done" /\ PubsOn(tasks[t], StateTopic(c)) # <<>>)
      => tasks[t].overtaken = {}

\* C16, the final value: when a show_icons or muted command's handler has
\* published after a later command on the same topic did, the shadow boolean
\* is still the one the later command asked for.
C16_LastCommandWins ==
  \A t \in Slots : \A c \in {"show_icons", "muted"} :
    (Handles(t, CmdTopic(c)) /\ tasks[t].pc = "done" /\ PubsOn(tasks[t], StateTopic(c)) # <<>>)
      => \A o \in tasks[t].overtaken : ToggleField(c, state) = o

\* C17 (as claimed): at most one recurring timer is armed.
C17_OneTimer == timers <= 1

Min(S) == CHOOSE i \in S : \A j \in S : i <= j

\* C18: in the log of a connect handler the "online" publish comes first;
\* nothing is registered or subscribed before the startup calls of part_001
\* are over; by the first listWallpapers call every entity (eight, nine in
\* part_000) has been registered and every command topic subscribed, each
\* registration before each subscribe; nothing is subscribed afterwards; and
\* the timer is armed once, as the last step, when no query is pending.
C18_ConnectOrder ==
  \A t \in Slots : tasks[t].kind = "connect" =>
    LET ev   == tasks[t].ev
        regs == {i \in 1..Len(ev) : IsRegistration(ev[i])}
        sbs  == {i \in 1..Len(ev) : ev[i].e = "sub"}
        qs   == {i \in 1..Len(ev) : ev[i] = Call(apiListW, <<>>)}
    IN  /\ ev[1] = Pub(StatusTopic, Text(sOnline), TRUE)
        /\ qs = {} => regs = {} /\ sbs = {}
        /\ qs # {} =>
             /\ Cardinality({i \in regs : i < Min(qs)}) = IF variant = "p0" THEN 9 ELSE 8
             /\ {ev[i].name : i \in sbs} = subscribeCommandTopics(variant)
             /\ \A i \in sbs : i < Min(qs) /\ \A r \in regs : r < Min(qs) => r < i
        /\ \A i \in 1..Len(ev) : ev[i] = Armed =>
             /\ i = Len(ev)
             /\ tasks[t].pc = "done"
             /\ qs # {}
             /\ ev[i - 1].e # "call"

\* a connect handler of part_001 has finished a complete first pass
C18_Witness ==
  \E t \in Slots :
    /\ variant = "p1"
    /\ tasks[t].kind = "connect"
    /\ tasks[t].pc = "done"
    /\ PubsOn(tasks[t], makeTopic(<< <<"we">>, nodeId, <<"profiles">>, <<"list">> >>)) # <<>>

Failed(task) == \E i \in 1..Len(task.ev) : task.ev[i] = Settled(FALSE)

\* C19: a connect handler ends by arming the timer, also when a query of
\* its first pass failed; a pass in which a query failed ends like any
\* other; the number of armed timers never decreases; and with a timer armed
\* the next tick starts a pass as soon as a handler can start.
C19_FailedPass ==
  /\ [](\A t \in Slots :
          /\ (tasks[t].kind = "connect" /\ tasks[t].pc = "done") =>
               tasks[t].ev[Len(tasks[t].ev)] = Armed /\ timers >= 1
          /\ (tasks[t].kind \in {"connect", "tick", "msg"} /\ tasks[t].pc = "done") =>
               ENABLED Retire(t))
  /\ []((timers >= 1 /\ HasFree) => ENABLED Tick)
  /\ [][timers' >= timers]_vars

\* a connect handler whose first pass failed has armed the timer
C19_Witness ==
  \E t \in Slots :
    /\ tasks[t].kind = "connect"
    /\ tasks[t].pc = "done"
    /\ Failed(tasks[t])
    /\ timers >= 1

StartupCalls == {apiShowIcons, apiUnmute, apiPlay, apiPause}

\* C20 (as claimed): the shadow booleans change only in a step of a toggle
\* command's handler, and a reconnect issues none of the calls showIcons,
\* unmute, play, pause.
C20_ShadowOnlyByToggle ==
  /\ [][state' # state =>
          \E t \in Slots : Acts(t) /\ tasks[t].kind = "msg"
                             /\ \E c \in ToggleNames : tasks[t].topic = CmdTopic(c)]_vars
  /\ [][(connects' # connects /\ connects >= 1) =>
          \A t \in Slots : \A i \in 1..Len(tasks'[t].ev) :
            (Acts(t) /\ tasks'[t].ev[i].e = "call") => tasks'[t].ev[i].name \notin StartupCalls]_vars

ShadowFields == {"showIcons", "muted", "paused"}

\* the shadow boolean a command on the topic is about, if any
OwnField(topic) ==
  IF topic = CmdTopic("show_icons") THEN {"showIcons"}
  ELSE IF topic = CmdTopic("muted") THEN {"muted"}
  ELSE IF topic = CmdTopic("paused") THEN {"paused"}
  ELSE {}

\* a step of the handler of a command changes no shadow boolean but the
\* command's own
FrameKept ==
  \A t \in Slots :
    (Acts(t) /\ tasks'[t].kind = "msg") =>
      \A f \in ShadowFields \ OwnField(tasks'[t].topic) : state'[f] = state[f]

\* C21 (as claimed): a step of a command's handler leaves every shadow
\* boolean unchanged except the one of the command's own toggle; the handlers
\* of button, select, properties and refresh commands change none.
C21_ToggleFrame == [][FrameKept]_vars

\* C21 in main.ts and part_000
C21_ToggleFrameFlip == [][variant # "p1" => FrameKept]_vars

IsCommandTopic(topic) == \E i \in 1..Len(CommandNames) : topic = CmdTopic(CommandNames[i])

\* topics that are not command topics of this node: the state topics, the
\* presence topic, properties/last_set, the list and discovery topics, and a
\* command topic of another node
OtherTopics ==
  {StateTopic(CommandNames[i]) : i \in 1..Len(CommandNames)}
    \cup {StatusTopic, LastSetTopic, WallpapersListTopic, SelectConfigTopic,
          makeTopic(<< <<"we">>, NodeIdOf(OtherIp), <<"muted">>, <<"set">> >>)}

\* C22: the handler of a message on a topic that is none of the nine command
\* topics ends at once, having made no control-API call and no publish (so
\* for every variant, every topic of OtherTopics and every payload, under the
\* node identifier resolved at startup), and its step changes neither the
\* shadow state nor the catalogs nor a retained value, a subscription or a
\* timer.
C22_ForeignTopicIgnored ==
  /\ [](/\ \A t \in Slots :
             (tasks[t].kind = "msg" /\ ~IsCommandTopic(tasks[t].topic)) =>
               /\ tasks[t].pc = "done"
               /\ tasks[t].ev = <<>>
               /\ ENABLED Retire(t)
        /\ connects = 0 =>
             \A v \in Variants : \A topic \in OtherTopics : \A msg \in TogglePayloads :
               LET h == StartMessage(v, topic, msg, wallpapers)
               IN  h.pc = "done" /\ h.ev = <<>>)
  /\ [][\A t \in Slots :
          (Acts(t) /\ tasks'[t].kind = "msg" /\ ~IsCommandTopic(tasks'[t].topic)) =>
            /\ state' = state
            /\ wallpapers' = wallpapers
            /\ profiles' = profiles
            /\ retained' = retained
            /\ subs' = subs
            /\ timers' = timers]_vars

\* part_000 has handled a message on show_icons/state, a topic on which it
\* has itself published
C22_Witness ==
  \E t \in Slots :
    /\ variant = "p0"
    /\ Handles(t, StateTopic("show_icons"))
    /\ tasks[t].pc = "done"
    /\ retained[StateTopic("show_icons")] # NoPayload

\* the handler of a command on toggle c has ended after its control call failed
ToggleFailed(task, c) ==
  /\ task.kind = "msg"
  /\ task.topic = CmdTopic(c)
  /\ task.pc = "done"
  /\ ~SettledOk(task, 1)

\* C23: when the control call of a toggle command failed, the handler ends
\* normally after that one call, without a publish; the step in which it
\* learns of the failure changes neither the shadow state nor a retained
\* value; the handler can be forgotten, and once it is, a message on any
\* subscribed toggle topic starts a handler.
C23_ToggleFailure ==
  /\ [](\A t \in Slots : \A c \in ToggleNames :
          ToggleFailed(tasks[t], c) =>
            /\ tasks[t].ev = <<Call(ToggleCall(variant, c, IsOn(tasks[t].msg)), <<>>), Settled(FALSE)>>
            /\ ENABLED Retire(t))
  /\ []((AllIdle /\ Running /\ transport = "open") =>
          \A topic \in subs \cap ToggleTopics : ENABLED Deliver(topic, sON))
  /\ [][\A t \in Slots : \A c \in ToggleNames :
          (Acts(t) /\ ToggleFailed(tasks'[t], c)) =>
            /\ state' = state
            /\ retained' = retained]_vars

\* muted was set and published as "ON"; a later muted/set "OFF" whose unmute
\* call failed has left it so
C23_Witness ==
  \E t \in Slots :
    /\ ToggleFailed(tasks[t], "muted")
    /\ tasks[t].msg = sOFF
    /\ state.muted
    /\ retained[StateTopic("muted")] = Text(sON)

\* a command handler or a connect handler is in flight
HandlerInFlight ==
  \E t \in Slots : tasks[t].kind \in {"msg", "connect"} /\ tasks[t].pc # "done"

\* the retained state of every toggle that has one says "ON" exactly when the
\* toggle's shadow boolean is true
RetainedMatchesShadow ==
  \A c \in ToggleNames :
    retained[StateTopic(c)] # NoPayload =>
      (retained[StateTopic(c)] = Text(sON) <=> ToggleField(c, state))

\* C24 (as claimed): whenever no command handler and no connect handler is
\* in flight, the retained state of every toggle for which one has been
\* published is "ON" exactly when the toggle's shadow boolean is true.
C24_RetainedMatchesShadow == ~HandlerInFlight => RetainedMatchesShadow

\* C24 in main.ts and part_000
C24_RetainedMatchesShadowNoReset ==
  (variant # "p1" /\ ~HandlerInFlight) => RetainedMatchesShadow

\* the monitor selectors of the options, in the order of the option list
Selectors == <<sAll, Digits(0), Digits(1), Digits(2)>>

\* the monitors a selector stands for
MonitorsOf(k) == IF k = 1 THEN <<0, 1, 2>> ELSE <<k - 2>>

\* what C25 expects of a finished handler whose payload is option k of
\* entry w: one load of w's id per monitor of the selector, in order
LoadedAsOption(task, w, k) ==
  LoadCalls(task) = [j \in 1..Len(MonitorsOf(k)) |->
                       Call(apiLoad, <<w.id, Int32(MonitorsOf(k)[j])>>)]

\* the payload is option k of entry i of the catalog the handler saw
IsOption(task, i, k) ==
  /\ i \in 1..Len(task.cat)
  /\ task.msg = OptionsOf(task.cat[i])[k]
  /\ task.msg = WallpaperOptionsP1(task.cat)[4 * (i - 1) + k]

\* C25 (as claimed): in part_001 a finished select_wallpaper handler whose
\* payload is an option the registration carries for the catalog the handler
\* saw has loaded the id of the entry the option was generated from, once on
\* each monitor the option's selector names.
C25_OptionRoundTrip ==
  \A t \in Slots :
    (variant = "p1" /\ Handles(t, CmdTopic("select_wallpaper")) /\ tasks[t].pc = "done") =>
      \A i \in 1..Len(tasks[t].cat) : \A k \in 1..4 :
        IsOption(tasks[t], i, k) => LoadedAsOption(tasks[t], tasks[t].cat[i], k)

\* C25 holds of the entries whose rendering has no "|"
C25_OptionRoundTripNoBar ==
  \A t \in Slots :
    (variant = "p1" /\ Handles(t, CmdTopic("select_wallpaper")) /\ tasks[t].pc = "done") =>
      \A i \in 1..Len(tasks[t].cat) : \A k \in 1..4 :
        (IsOption(tasks[t], i, k) /\ Len(Split(Render(tasks[t].cat[i]), "|")) = 1)
          => LoadedAsOption(tasks[t], tasks[t].cat[i], k)

\* the option list of the select_wallpaper registration published last
PublishedOptions == retained[SelectConfigTopic].v.options

\* C26 (as claimed): once a select_wallpaper registration with a non-empty
\* option list is the last one published, the retained value of
\* select_wallpaper/state, if there is one, is one of its options.
C26_SelectedIsOption ==
  (/\ retained[SelectConfigTopic].k = "json"
   /\ Len(PublishedOptions) > 0
   /\ retained[StateTopic("select_wallpaper")].k = "text")
    => \E i \in 1..Len(PublishedOptions) :
         PublishedOptions[i] = retained[StateTopic("select_wallpaper")].v

\* a refresh pass waits for a query
PassInFlight == \E t \in Slots : tasks[t].pc \in {"listW", "listP", "currentR", "ret"}

\* C27 (as claimed): whenever no pass is in flight and a catalog has been
\* published, the in-memory wallpaper catalog is the one last published on
\* wallpapers/list and the one the options of the last select_wallpaper
\* registration were made from.
C27_CatalogPublished ==
  (~PassInFlight /\ retained[WallpapersListTopic].k = "json") =>
    /\ retained[WallpapersListTopic] = Json(wallpapers)
    /\ retained[SelectConfigTopic].k = "json"
    /\ PublishedOptions = WallpaperOptions(variant, wallpapers)

====
